---- MODULE Spec2Model ----
(***************************************************************************)
(* Model of src/api_elecciones_datos.py: the polling loop of main() that   *)
(* reconciles, per scope (ambito), the freshly fetched results against the *)
(* rows of the previous cycle and publishes elecciones_datos.csv.          *)
(*                                                                         *)
(* Conventions.                                                            *)
(*  - A float percentage is an integer number of thousandths (40125 is     *)
(*    40.125).  The two-decimal string truncate_2 produces is the record   *)
(*    [neg, cents]: "-0.00" is [neg |-> TRUE, cents |-> 0].                *)
(*  - A Python string that may be missing is "" when missing (the code     *)
(*    reads such fields with `or ""`, so None and "" behave alike).        *)
(*  - A JSON field that may hold a number, a non-numeric text or nothing   *)
(*    is Num(v), Txt or NoVal.                                             *)
(*  - A row of the CSV is a record with the columns of friendly_header().  *)
(*  - The scope key "ambito|ambito_id|categoria" is the triple             *)
(*    <<ambito, ambito_id, categoria>>.                                    *)
(*  - prev_rows_by_key, a dict that is iterated, is the sequence of its    *)
(*    [key, rows] entries in insertion order; prev_mesas_pct_by_key, only  *)
(*    looked up, is a function on the keys it holds.                       *)
(***************************************************************************)
EXTENDS Integers, Sequences, FiniteSets, TLC

VARIABLES
    env,                    \* the environment the program runs in
    sen_id, dip_id,         \* category ids resolved before the loop ("": None)
    pc,                     \* position of main() in its while loop
    cycle,                  \* number of the current cycle (cycle_ts)
    ci,                     \* index in ((sen_id, ..), (dip_id, ..))
    pba_id,                 \* of the current category ("" is None)
    distritos,              \* districts of the current category still to do
    rows,                   \* rows accumulated in the current cycle
    errors,                 \* diagnostics of the current cycle
    ambitos_ok,             \* scopes that succeeded in the current cycle
    prev_rows_by_key,       \* previous rows, per scope key
    prev_mesas_pct_by_key,  \* previous progress, per scope key
    csv,                    \* content of elecciones_datos.csv (<<>>: no file)
    fallback_csv,           \* content of elecciones_datos.fallback.csv
    run_log,                \* last cycle summary appended to logs/run.log
    hist,                   \* history: what happened in this cycle and the last
    call                    \* a function of the program run on its own: its
                            \* arguments, its locals and what it has done so far
                            \* (<<>> while main() runs its loop)

(* The variables of the loop of main(). *)
loop_vars == <<env, sen_id, dip_id, pc, cycle, ci, pba_id, distritos, rows, errors,
               ambitos_ok, prev_rows_by_key, prev_mesas_pct_by_key, csv, fallback_csv,
               run_log, hist>>

vars == <<loop_vars, call>>

(* Number of polling cycles explored (the code's loop never ends). *)
MaxCycles == 2

----------------------------------------------------------------------------
(* Values read from JSON *)

NoVal == [k |-> "none"]
Num(v) == [k |-> "num", v |-> v]
Txt == [k |-> "str"]

(* Python truthiness of a JSON value: None and 0 are falsy. *)
Truthy(x) == CASE x.k = "none" -> FALSE
               [] x.k = "num" -> x.v # 0
               [] OTHER -> TRUE

(* `a or b` on JSON values and on strings. *)
OrElse(a, b) == IF Truthy(a) THEN a ELSE b
StrOr(a, b) == IF a # "" THEN a ELSE b

(* str.strip() on the strings of the model: " " and "A " carry blanks. *)
Strip(s) == CASE s = " " -> ""
              [] s = "A " -> "A"
              [] OTHER -> s

Abs(x) == IF x < 0 THEN -x ELSE x

(* The values up to 0.600 (in thousandths) whose float, multiplied by 100.0,
   falls just below a whole number: 0.29 * 100.0 is 28.999999999999996.
   The other values the model truncates (8.0, 9.0, 10.005, 29.995, 35.0,
   40.125, 45.0) have no such product. *)
FloatShort == {290, 570, 580}

(* int(val * 100.0) of truncate_2, val = abs(x), in hundredths. *)
IntTimes100(val) == IF val \in FloatShort THEN val \div 10 - 1 ELSE val \div 10

(* truncate_2: int(abs(x) * 100.0) / 100.0 with the sign of x, as "%.2f". *)
truncate_2(x) == [neg |-> x < 0, cents |-> IntTimes100(Abs(x))]

(* float() of a two-decimal string, in hundredths. *)
ParseFloat(s) == IF s.neg THEN -s.cents ELSE s.cents

(* The literals "0.00" and "0" of the code. *)
ZeroPct == [neg |-> FALSE, cents |-> 0]

----------------------------------------------------------------------------
(* Sequences *)

RECURSIVE SeqToSet(_)
SeqToSet(s) == IF s = <<>> THEN {} ELSE {Head(s)} \cup SeqToSet(Tail(s))

RECURSIVE Concat(_)
Concat(ss) == IF ss = <<>> THEN <<>> ELSE Head(ss) \o Concat(Tail(ss))

----------------------------------------------------------------------------
(* Progress *)

extract_mesas_pct(payload) ==
    IF payload.mesasTotalizadasPorcentaje.k = "num"
    THEN payload.mesasTotalizadasPorcentaje.v
    ELSE 0

(* A lookup that a progress of exactly 0 does not trigger. *)
estado_recuento_called_below_zero(res_payload) == extract_mesas_pct(res_payload) < 0

(* if val <= 0.0: whether get_estado_recuento is called *)
estado_recuento_called(res_payload) == extract_mesas_pct(res_payload) <= 0

(* est: what get_estado_recuento does: raises, or returns a payload. *)
get_mesas_pct_with_fallback(res_payload, est) ==
    LET val == extract_mesas_pct(res_payload)
    IN IF estado_recuento_called(res_payload)
          /\ ~est.raised /\ est.mesasTotalizadasPorcentaje.k = "num"
       THEN est.mesasTotalizadasPorcentaje.v
       ELSE val

----------------------------------------------------------------------------
(* Photos: fotos_map, photos_default; photos_base is "" *)

FotosMap == [k \in {"1", "B"} |-> IF k = "1" THEN "uno.png" ELSE "b.png"]
PhotosDefault == "default.png"

MapGet(k) == IF k \in DOMAIN FotosMap THEN FotosMap[k] ELSE ""

foto_for(item) ==
    LET pid == Strip(StrOr(item.idAgrupacion, item.id))
        pname == Strip(StrOr(item.nombreAgrupacion, item.nombre))
        key == StrOr(pid, pname)
        cand == StrOr(StrOr(MapGet(key), MapGet(pname)), MapGet(pid))
    IN IF cand # "" THEN cand ELSE PhotosDefault

----------------------------------------------------------------------------
(* build_rows_full *)

PctRaw(x) == OrElse(OrElse(x.votosPorcentaje, x.porcentajeVotos), Num(0))

(* float() of a non-numeric text raises ValueError. *)
PctRaises(x) == PctRaw(x).k = "str"

pct_of(x) == PctRaw(x).v

(* sorted(items, key=pct_of, reverse=True): stable, descending. *)
RECURSIVE InsertItem(_, _)
InsertItem(sorted, x) ==
    IF sorted = <<>> THEN <<x>>
    ELSE IF pct_of(Head(sorted)) >= pct_of(x)
         THEN <<Head(sorted)>> \o InsertItem(Tail(sorted), x)
         ELSE <<x>> \o sorted

RECURSIVE SortItems(_)
SortItems(items) ==
    IF items = <<>> THEN <<>>
    ELSE InsertItem(SortItems(SubSeq(items, 1, Len(items) - 1)), items[Len(items)])

(* The result: raised (an item's percentage is not a number), or the rows
   in descending order of percentage, puesto "0", and the progress. *)
build_rows_full(res, ambito, ambito_id, provincia, categoria_name, ts_iso, est) ==
    LET items == res.valoresTotalizadosPositivos
        mesas_pct == get_mesas_pct_with_fallback(res, est)
    IN IF \E i \in 1..Len(items) : PctRaises(items[i])
       THEN [raised |-> TRUE, rows |-> <<>>, mesas_pct |-> mesas_pct]
       ELSE LET sorted_items == SortItems(items)
            IN [raised |-> FALSE,
                rows |-> [i \in 1..Len(sorted_items) |->
                    LET it == sorted_items[i]
                    IN [ambito |-> ambito,
                        ambito_id |-> ambito_id,
                        provincia |-> provincia,
                        categoria |-> categoria_name,
                        puesto |-> 0,
                        agrupacion_id |-> it.idAgrupacion,
                        agrupacion |-> StrOr(it.nombreAgrupacion, it.nombre),
                        votos_pct |-> truncate_2(pct_of(it)),
                        mesas_pct |-> truncate_2(mesas_pct),
                        foto |-> foto_for(it),
                        ts_iso |-> ts_iso]],
                mesas_pct |-> mesas_pct]

----------------------------------------------------------------------------
(* Dicts of rows by scope key *)

KeyOf(r) == <<r.ambito, r.ambito_id, r.categoria>>

DictKeys(d) == {d[i].key : i \in 1..Len(d)}

(* dict.get(key, []) *)
DictGet(d, key) ==
    IF \E i \in 1..Len(d) : d[i].key = key
    THEN d[CHOOSE i \in 1..Len(d) : d[i].key = key].rows
    ELSE <<>>

(* d.setdefault(key, []).append(r) *)
DictAppend(d, key, r) ==
    IF \E i \in 1..Len(d) : d[i].key = key
    THEN [i \in 1..Len(d) |->
            IF d[i].key = key THEN [key |-> key, rows |-> Append(d[i].rows, r)]
            ELSE d[i]]
    ELSE Append(d, [key |-> key, rows |-> <<r>>])

RECURSIVE index_rows_by_key(_)
index_rows_by_key(rs) ==
    IF rs = <<>> THEN <<>>
    ELSE DictAppend(index_rows_by_key(SubSeq(rs, 1, Len(rs) - 1)),
                    KeyOf(rs[Len(rs)]), rs[Len(rs)])

(* d[key] = value: in place when the key is held, at the end otherwise. *)
DictSet(d, key, value) ==
    IF \E i \in 1..Len(d) : d[i].key = key
    THEN [i \in 1..Len(d) |->
            IF d[i].key = key THEN [key |-> key, rows |-> value] ELSE d[i]]
    ELSE Append(d, [key |-> key, rows |-> value])

(* d.update(e) *)
RECURSIVE DictUpdate(_, _)
DictUpdate(d, e) ==
    IF e = <<>> THEN d
    ELSE DictUpdate(DictSet(d, Head(e).key, Head(e).rows), Tail(e))

(* The rows of every entry, in the dict's order. *)
DictRows(d) == Concat([i \in 1..Len(d) |-> d[i].rows])

----------------------------------------------------------------------------
(* enforce_mesas_monotonic: the rows and the new prev_mesas_pct_by_key *)

(* The guard without its comparison: the fetched progress always wins. *)
enforce_mesas_monotonic_unguarded(key, rs, mesas_pct_current, prev_mesas) ==
    [rows |-> rs,
     prev_mesas |-> [k \in DOMAIN prev_mesas \cup {key} |->
                       IF k = key THEN mesas_pct_current ELSE prev_mesas[k]]]

(* A guard that overrides the progress of the first row only. *)
enforce_mesas_monotonic_first_row(key, rs, mesas_pct_current, prev_mesas) ==
    IF key \in DOMAIN prev_mesas /\ mesas_pct_current < prev_mesas[key]
    THEN [rows |-> [i \in 1..Len(rs) |->
                      IF i = 1
                      THEN [rs[i] EXCEPT !.mesas_pct = truncate_2(prev_mesas[key])]
                      ELSE rs[i]],
          prev_mesas |-> prev_mesas]
    ELSE [rows |-> rs,
          prev_mesas |-> [k \in DOMAIN prev_mesas \cup {key} |->
                            IF k = key THEN mesas_pct_current ELSE prev_mesas[k]]]

enforce_mesas_monotonic(key, rs, mesas_pct_current, prev_mesas) ==
    IF key \in DOMAIN prev_mesas /\ mesas_pct_current < prev_mesas[key]
    THEN [rows |-> [i \in 1..Len(rs) |->
                      [rs[i] EXCEPT !.mesas_pct = truncate_2(prev_mesas[key])]],
          prev_mesas |-> prev_mesas]
    ELSE [rows |-> rs,
          prev_mesas |-> [k \in DOMAIN prev_mesas \cup {key} |->
                            IF k = key THEN mesas_pct_current ELSE prev_mesas[k]]]

----------------------------------------------------------------------------
(* _rank_and_stabilize_rows *)

unique_key_of(r) == StrOr(Strip(r.agrupacion_id), Strip(r.agrupacion))

(* The keys of {unique_key_of(r): r for r in rs}, in insertion order. *)
RECURSIVE ByKeyKeys(_)
ByKeyKeys(rs) ==
    IF rs = <<>> THEN <<>>
    ELSE LET front == ByKeyKeys(SubSeq(rs, 1, Len(rs) - 1))
             k == unique_key_of(rs[Len(rs)])
         IN IF k \in SeqToSet(front) THEN front ELSE Append(front, k)

(* The value of that dict at k: the last row of rs with that key. *)
ByKeyGet(rs, k) ==
    LET I == {i \in 1..Len(rs) : unique_key_of(rs[i]) = k}
    IN rs[CHOOSE i \in I : \A j \in I : j <= i]

(* No reinstatement: the identities missing in rs get no stub. *)
StubsNone(rs, prev_rows) == <<>>

(* A reinstatement of the first missing identity alone. *)
StubsFirstMissing(rs, prev_rows) ==
    LET curr == SeqToSet(ByKeyKeys(rs))
        missing_keys == SelectSeq(ByKeyKeys(prev_rows), LAMBDA k : k \notin curr)
    IN IF rs = <<>> \/ missing_keys = <<>> THEN <<>>
       ELSE LET pr == ByKeyGet(prev_rows, missing_keys[1])
            IN << [rs[1] EXCEPT !.puesto = 0,
                                !.agrupacion_id = pr.agrupacion_id,
                                !.agrupacion = pr.agrupacion,
                                !.votos_pct = ZeroPct,
                                !.foto = pr.foto] >>

(* The stubs appended for the identities of prev_rows missing in rs. *)
Stubs(rs, prev_rows) ==
    LET curr == SeqToSet(ByKeyKeys(rs))
        missing_keys == SelectSeq(ByKeyKeys(prev_rows), LAMBDA k : k \notin curr)
    IN IF rs = <<>> THEN <<>>
       ELSE [i \in 1..Len(missing_keys) |->
               LET pr == ByKeyGet(prev_rows, missing_keys[i])
               IN [ambito |-> rs[1].ambito,
                   ambito_id |-> rs[1].ambito_id,
                   provincia |-> rs[1].provincia,
                   categoria |-> rs[1].categoria,
                   puesto |-> 0,
                   agrupacion_id |-> pr.agrupacion_id,
                   agrupacion |-> pr.agrupacion,
                   votos_pct |-> ZeroPct,
                   mesas_pct |-> rs[1].mesas_pct,
                   foto |-> pr.foto,
                   ts_iso |-> rs[1].ts_iso]]

(* No deduplication: every row is kept. *)
DedupNone(rs) == rs

(* A deduplication that keeps the last row of each identity. *)
RECURSIVE DedupKeepLast(_)
DedupKeepLast(rs) ==
    IF rs = <<>> THEN <<>>
    ELSE LET back == DedupKeepLast(Tail(rs))
         IN IF \E i \in 1..Len(back) : unique_key_of(back[i]) = unique_key_of(Head(rs))
            THEN back
            ELSE <<Head(rs)>> \o back

(* Keeps the first row of each identity. *)
RECURSIVE Dedup(_)
Dedup(rs) ==
    IF rs = <<>> THEN <<>>
    ELSE LET front == Dedup(SubSeq(rs, 1, Len(rs) - 1))
             r == rs[Len(rs)]
         IN IF \E i \in 1..Len(front) : unique_key_of(front[i]) = unique_key_of(r)
            THEN front
            ELSE Append(front, r)

votos_float(r) == ParseFloat(r.votos_pct)

(* An insertion that puts a row before the rows of equal share. *)
RECURSIVE InsertRowBeforeEqual(_, _)
InsertRowBeforeEqual(sorted, r) ==
    IF sorted = <<>> THEN <<r>>
    ELSE IF votos_float(Head(sorted)) > votos_float(r)
         THEN <<Head(sorted)>> \o InsertRowBeforeEqual(Tail(sorted), r)
         ELSE <<r>> \o sorted

(* sorted(deduped, key=votos_float, reverse=True): stable, descending. *)
RECURSIVE InsertRow(_, _)
InsertRow(sorted, r) ==
    IF sorted = <<>> THEN <<r>>
    ELSE IF votos_float(Head(sorted)) >= votos_float(r)
         THEN <<Head(sorted)>> \o InsertRow(Tail(sorted), r)
         ELSE <<r>> \o sorted

RECURSIVE SortRows(_)
SortRows(rs) ==
    IF rs = <<>> THEN <<>>
    ELSE InsertRow(SortRows(SubSeq(rs, 1, Len(rs) - 1)), rs[Len(rs)])

(* enumerate(ordered) without start=1: the ranks begin at 0. *)
AssignPuestoFromZero(ordered) ==
    [i \in 1..Len(ordered) |-> [ordered[i] EXCEPT !.puesto = i - 1]]

(* r[4] = str(i) for i, r in enumerate(ordered, start=1) *)
AssignPuesto(ordered) ==
    [i \in 1..Len(ordered) |-> [ordered[i] EXCEPT !.puesto = i]]

rank_and_stabilize_rows(ambito_key, rs, prev_rows) ==
    AssignPuesto(SortRows(Dedup(rs \o Stubs(rs, DictGet(prev_rows, ambito_key)))))

(* The list objects behind the rows.  The rows of rs are the lists that
   build_rows_full created; the row at position pos of the table's entry
   is the object <<"prev", pos>>. *)

(* A stub that is the previous row itself, overwritten in place. *)
StubObjectPrevious(pos) == <<"prev", pos>>

(* stub = [...]: the stub made from the previous row at pos is a new list. *)
StubObject(pos) == <<"stub", pos>>

(* The positions of the table's entry from whose rows a stub is made:
   prev_by_key keeps the last row of each key. *)
StubPositions(rs, prev_rows) ==
    IF rs = <<>> THEN {}
    ELSE {pos \in 1..Len(prev_rows) :
            /\ unique_key_of(prev_rows[pos]) \notin SeqToSet(ByKeyKeys(rs))
            /\ \A j \in (pos + 1)..Len(prev_rows) :
                  unique_key_of(prev_rows[j]) # unique_key_of(prev_rows[pos])}

(* The positions of the table's entry whose list is among the lists that
   r[4] = str(i) and r[8] = truncate_2(prev) write to: those lists are the
   rows of rs and the stubs. *)
WrittenPositions(rs, prev_rows) ==
    {pos \in StubPositions(rs, prev_rows) : StubObject(pos)[1] = "prev"}

(* prev_rows_by_key after _rank_and_stabilize_rows and
   enforce_mesas_monotonic have run on a scope: rs are the rows they were
   given, out the rows they returned.  A list of the table that they wrote
   to reads as the row of out with its identity. *)
table_after_writes(ambito_key, rs, out, prev_rows) ==
    LET entry == DictGet(prev_rows, ambito_key)
        W == WrittenPositions(rs, entry)
    IN IF W = {} THEN prev_rows
       ELSE DictSet(prev_rows, ambito_key,
                    [pos \in 1..Len(entry) |->
                       IF pos \in W
                       THEN out[CHOOSE i \in 1..Len(out) :
                                  unique_key_of(out[i]) = unique_key_of(entry[pos])]
                       ELSE entry[pos]])

----------------------------------------------------------------------------
(* _validate_rows_per_ambito: the warnings of one scope.  A diagnostic is
   [tag, scope, info]: the kind of message, the scope key it is about
   (<<>> when none) and the value it carries. *)

RECURSIVE SumVotos(_)
SumVotos(rs) == IF rs = <<>> THEN 0 ELSE votos_float(Head(rs)) + SumVotos(Tail(rs))

(* The first row whose non-empty agrupacion_id was seen before, or 0. *)
FirstDuplicate(rs) ==
    LET D == {i \in 1..Len(rs) :
                /\ Strip(rs[i].agrupacion_id) # ""
                /\ \E j \in 1..(i - 1) :
                      Strip(rs[j].agrupacion_id) = Strip(rs[i].agrupacion_id)}
    IN IF D = {} THEN 0 ELSE CHOOSE i \in D : \A j \in D : i <= j

validate_rows_per_ambito(ambito_key, rs) ==
    (IF SumVotos(rs) > 10001
     THEN <<[tag |-> "warn suma_pct", scope |-> ambito_key, info |-> ""]>>
     ELSE <<>>)
    \o (IF FirstDuplicate(rs) # 0
        THEN <<[tag |-> "warn duplicado agrupacion_id", scope |-> ambito_key,
                info |-> Strip(rs[FirstDuplicate(rs)].agrupacion_id)]>>
        ELSE <<>>)

----------------------------------------------------------------------------
(* atomic_write_csv, by its outcome: "replaced" (the temporary file has
   replaced the published one), "fallback" (the replace failed and the
   rows went to the .fallback.csv artifact) or "raise" (an exception
   leaves the function before any file is replaced). *)

atomic_write_csv(rs, out, files) ==
    CASE out = "replaced" -> [csv |-> rs, fallback_csv |-> files.fallback_csv, raised |-> FALSE]
      [] out = "fallback" -> [csv |-> files.csv, fallback_csv |-> rs, raised |-> FALSE]
      [] OTHER -> [csv |-> files.csv, fallback_csv |-> files.fallback_csv, raised |-> TRUE]

----------------------------------------------------------------------------
(* Inputs *)

(* ((sen_id, "SENADORES"), (dip_id, "DIPUTADOS")) *)
Categorias == << [cid |-> sen_id, cname |-> "SENADORES"],
                 [cid |-> dip_id, cname |-> "DIPUTADOS"] >>

(* The environments explored.  Each fixes what the program is given:
   "categorias": get_categorias lists both categories, no catalog lists a
       province, the disk is reliable;
   "provincias": get_categorias lists SENADORES alone, its catalog may list
       the province "02", which is also PBA, the disk is reliable;
   "disco": SENADORES alone, no province, and any write may fail.
   In every environment any catalog lookup and any fetch may fail.
   A fourth environment, "fuerzas", is explored one scope at a time (see
   SpecScope): SENADORES alone, no province, the disk is reliable, and the
   fetch returns any short list of the items of ScopeItems. *)
Environments == {"categorias", "provincias", "disco"}

(* The category ids main() resolves from get_categorias (it returns before
   the loop when it finds neither). *)
CategoryIds(e) ==
    IF e = "categorias" THEN [sen_id |-> "1", dip_id |-> "2"]
    ELSE [sen_id |-> "1", dip_id |-> ""]

PbaName == "Provincia de Buenos Aires"

(* What resolve_pba_and_districts(cid) does: raises, or returns pba_id and
   the districts. *)
CatalogRaise == [raised |-> TRUE, pba_id |-> "", distritos |-> <<>>]
CatalogNone == [raised |-> FALSE, pba_id |-> "", distritos |-> <<>>]
CatalogPba == [raised |-> FALSE, pba_id |-> "02",
               distritos |-> << [distritoId |-> "02", nombre |-> "Buenos Aires"] >>]

CatalogResults ==
    IF env = "provincias" THEN {CatalogRaise, CatalogNone, CatalogPba}
    ELSE {CatalogRaise, CatalogNone}

Item(pid, pname, pct) ==
    [idAgrupacion |-> pid, id |-> "", nombreAgrupacion |-> pname, nombre |-> "",
     votosPorcentaje |-> pct, porcentajeVotos |-> NoVal]

EstRaise == [raised |-> TRUE, mesasTotalizadasPorcentaje |-> NoVal]

Payload(items, mesas, est) ==
    [raised |-> FALSE,
     res |-> [valoresTotalizadosPositivos |-> items, mesasTotalizadasPorcentaje |-> mesas],
     est |-> est]

(* What get_resultados (and get_estado_recuento after it) does for one
   scope: raises, or returns one of these payloads. *)
FetchRaise == [raised |-> TRUE,
               res |-> [valoresTotalizadosPositivos |-> <<>>, mesasTotalizadasPorcentaje |-> NoVal],
               est |-> EstRaise]
FetchEmpty == Payload(<<>>, Num(9000), EstRaise)
FetchFirst == Payload(<< Item("1", "A", Num(40125)), Item("2", "B", Num(35000)),
                         Item("", "", NoVal) >>, Num(10005), EstRaise)
FetchSecond == Payload(<< Item("1", "A", Num(45000)) >>, NoVal,
                       [raised |-> FALSE, mesasTotalizadasPorcentaje |-> Num(8000)])

(* The longest list of items a fetch of the environment "fuerzas" returns. *)
MaxItems == 3

(* Its items: two with the same idAgrupacion, two whose identity is the
   name "A" once stripped (one of them with its percentage in
   porcentajeVotos), one without any percentage and one whose percentage
   is a text that is not a number. *)
ScopeItems ==
    { Item("1", "A", Num(30000)),
      Item("1", "A2", Num(20000)),
      Item("", "A ", Num(20000)),
      [Item(" ", "A", NoVal) EXCEPT !.porcentajeVotos = Num(5000)],
      Item("3", "C", NoVal),
      Item("2", "B", Txt) }

RECURSIVE SeqsUpTo(_, _)
SeqsUpTo(S, n) ==
    IF n = 0 THEN {<<>>}
    ELSE LET shorter == SeqsUpTo(S, n - 1)
         IN shorter \cup {Append(q, x) : q \in shorter, x \in S}

EstOf(v) == [raised |-> FALSE, mesasTotalizadasPorcentaje |-> v]

(* The progress of its payloads: the value of the primary payload and what
   get_estado_recuento does. *)
ScopeProgress ==
    { <<Num(10005), EstRaise>>, <<NoVal, EstOf(Num(8000))>>, <<NoVal, EstRaise>>,
      <<Num(-5000), EstOf(Txt)>>, <<Num(0), EstOf(Num(12000))>>, <<Txt, EstOf(NoVal)>> }

ScopeFetches ==
    {FetchRaise, FetchFirst, FetchSecond}
    \cup {Payload(items, p[1], p[2]) : items \in SeqsUpTo(ScopeItems, MaxItems),
                                       p \in ScopeProgress}

Fetches ==
    IF env = "fuerzas" THEN ScopeFetches
    ELSE {FetchRaise, FetchEmpty, FetchFirst, FetchSecond}

WriteOutcomes ==
    IF env = "disco" THEN {"replaced", "fallback", "raise"} ELSE {"replaced"}

(* The identity of a raw item, as unique_key_of sees the row built of it. *)
ItemIdentity(it) ==
    StrOr(Strip(it.idAgrupacion), Strip(StrOr(it.nombreAgrupacion, it.nombre)))

----------------------------------------------------------------------------
(* main(): one scope of one category (the NACIONAL, PBA and PROVINCIA
   blocks are the same code).  Each operator gives the values the block
   leaves in rows, errors, ambitos_ok, prev_mesas_pct_by_key and the files;
   res is how the scope ended, wrote whether the writer was invoked and
   crashed whether an exception left the block. *)

Files == [csv |-> csv, fallback_csv |-> fallback_csv]

Err(tag, scope, info) == [tag |-> tag, scope |-> scope, info |-> info]

(* A fallback that stamps the previous rows with the current cycle. *)
fallback_rows_restamped(key) ==
    LET prs == DictGet(prev_rows_by_key, key)
    IN [i \in 1..Len(prs) |-> [prs[i] EXCEPT !.ts_iso = cycle]]

(* prev_rows_by_key.get(ambito_key, []) of the fallback branches *)
fallback_rows(key) == DictGet(prev_rows_by_key, key)

(* An except clause that does not catch the exception of the scope. *)
scope_except_reraise(key, kind, cid) ==
    [rows |-> rows, errors |-> errors, ambitos_ok |-> ambitos_ok,
     prev_mesas |-> prev_mesas_pct_by_key,
     prev_rows |-> prev_rows_by_key,
     csv |-> csv, fallback_csv |-> fallback_csv,
     res |-> "fail", wrote |-> FALSE, crashed |-> TRUE]

(* except Exception as e: errors.append(..); rows.extend(prev rows) *)
scope_except(key, kind, cid) ==
    [rows |-> rows \o fallback_rows(key),
     errors |-> Append(errors, Err(kind, key, cid)),
     ambitos_ok |-> ambitos_ok,
     prev_mesas |-> prev_mesas_pct_by_key,
     prev_rows |-> prev_rows_by_key,
     csv |-> csv, fallback_csv |-> fallback_csv,
     res |-> "fail", wrote |-> FALSE, crashed |-> FALSE]

(* An empty result that is counted among the scopes that succeeded. *)
scope_empty_counted(key, kind, cid) ==
    [rows |-> rows \o fallback_rows(key),
     errors |-> Append(errors, Err("empty resultados", key, cid)),
     ambitos_ok |-> ambitos_ok + 1,
     prev_mesas |-> prev_mesas_pct_by_key,
     prev_rows |-> prev_rows_by_key,
     csv |-> csv, fallback_csv |-> fallback_csv,
     res |-> "empty", wrote |-> FALSE, crashed |-> FALSE]

(* if not amb_rows: errors.append("empty resultados ..."); fallback *)
scope_empty(key, kind, cid) ==
    [rows |-> rows \o fallback_rows(key),
     errors |-> Append(errors, Err("empty resultados", key, cid)),
     ambitos_ok |-> ambitos_ok,
     prev_mesas |-> prev_mesas_pct_by_key,
     prev_rows |-> prev_rows_by_key,
     csv |-> csv, fallback_csv |-> fallback_csv,
     res |-> "empty", wrote |-> FALSE, crashed |-> FALSE]

(* An incremental snapshot of the rows of this cycle alone. *)
combined_rows_cycle_only(cycle_rows) == DictRows(index_rows_by_key(cycle_rows))

(* The rows of the incremental write: the previous rows of every scope,
   replaced by the rows of this cycle for the scopes that have some. *)
combined_rows(cycle_rows) ==
    DictRows(DictUpdate(prev_rows_by_key, index_rows_by_key(cycle_rows)))

(* A scope block without its incremental write. *)
incremental_write_skipped(cycle_rows, key, w) ==
    [csv |-> csv, fallback_csv |-> fallback_csv, wrote |-> FALSE, errors |-> errors]

(* Escritura incremental: the files and the diagnostics after it *)
incremental_write(cycle_rows, key, w) ==
    IF combined_rows(cycle_rows) # <<>>
    THEN LET f == atomic_write_csv(combined_rows(cycle_rows), w, Files)
         IN [csv |-> f.csv, fallback_csv |-> f.fallback_csv, wrote |-> TRUE,
             errors |-> IF f.raised THEN Append(errors, Err("csv_incr", key, ""))
                        ELSE errors]
    ELSE [csv |-> csv, fallback_csv |-> fallback_csv, wrote |-> FALSE,
          errors |-> errors]

(* else: stabilize, guard the progress, extend, count, write *)
scope_ok(key, amb_rows, mesas_pct_val, w) ==
    LET ranked == rank_and_stabilize_rows(key, amb_rows, prev_rows_by_key)
        enf == enforce_mesas_monotonic(key, ranked, mesas_pct_val, prev_mesas_pct_by_key)
        wr == incremental_write(rows \o enf.rows, key, w)
    IN [rows |-> rows \o enf.rows,
        errors |-> wr.errors,
        ambitos_ok |-> ambitos_ok + 1,
        prev_mesas |-> enf.prev_mesas,
        prev_rows |-> table_after_writes(key, amb_rows, enf.rows, prev_rows_by_key),
        csv |-> wr.csv, fallback_csv |-> wr.fallback_csv,
        res |-> "ok", wrote |-> wr.wrote, crashed |-> FALSE]

(* try: get_resultados; build_rows_full; ... except Exception *)
reconcile_scope(ambito, ambito_id, provincia, kind, f, w) ==
    LET cat == Categorias[ci]
        key == <<ambito, ambito_id, cat.cname>>
        built == build_rows_full(f.res, ambito, ambito_id, provincia, cat.cname,
                                 cycle, f.est)
    IN IF f.raised \/ built.raised THEN scope_except(key, kind, cat.cid)
       ELSE IF built.rows = <<>> THEN scope_empty(key, kind, cat.cid)
       ELSE scope_ok(key, built.rows, built.mesas_pct, w)

(* What the history keeps of a scope: how it ended, what the fetch did,
   the identities of the raw items fetched (none when the fetch raised) and
   whether get_estado_recuento was called. *)
Outcome(f, r) ==
    [res |-> r.res,
     fetch |-> f,
     est_called |-> ~f.raised /\ estado_recuento_called(f.res),
     fetched |-> ~f.raised,
     ids |-> IF f.raised THEN {}
             ELSE {ItemIdentity(f.res.valoresTotalizadosPositivos[i]) :
                     i \in 1..Len(f.res.valoresTotalizadosPositivos)}]

(* The scope keys a category reconciles once its catalog is resolved. *)
ScopesOf(cname, c) ==
    {<<"NACIONAL", "AR", cname>>}
    \cup (IF c.pba_id # "" THEN {<<"PBA", "PBA", cname>>} ELSE {})
    \cup {<<"PROVINCIA", c.distritos[i].distritoId, cname>> : i \in 1..Len(c.distritos)}

(* The state after a scope block: r is its result, key its scope. *)
AfterScope(key, f, r) ==
    /\ rows' = r.rows
    /\ errors' = r.errors
    /\ ambitos_ok' = r.ambitos_ok
    /\ prev_mesas_pct_by_key' = r.prev_mesas
    /\ prev_rows_by_key' = r.prev_rows
    /\ csv' = r.csv
    /\ fallback_csv' = r.fallback_csv
    /\ hist' = [hist EXCEPT
                  !.outcome = [k \in DOMAIN hist.outcome \cup {key} |->
                                 IF k = key THEN Outcome(f, r) ELSE hist.outcome[k]],
                  !.n_incr = IF r.wrote THEN @ + 1 ELSE @,
                  !.handed = IF r.wrote THEN combined_rows(r.rows) ELSE @]
    /\ UNCHANGED <<env, sen_id, dip_id, cycle, run_log, pba_id, call>>

----------------------------------------------------------------------------
(* The while loop of main() *)

(* The state before the first cycle. *)
loop_init ==
    /\ env \in Environments
    /\ sen_id = CategoryIds(env).sen_id
    /\ dip_id = CategoryIds(env).dip_id
    /\ pc = "while"
    /\ cycle = 0
    /\ ci = 1
    /\ pba_id = ""
    /\ distritos = <<>>
    /\ rows = <<>>
    /\ errors = <<>>
    /\ ambitos_ok = 0
    /\ prev_rows_by_key = <<>>
    /\ prev_mesas_pct_by_key = <<>>
    /\ csv = <<>>
    /\ fallback_csv = <<>>
    /\ run_log = <<>>
    /\ hist = [outcome |-> <<>>, expected |-> {}, n_incr |-> 0, n_final |-> 0,
               last_rows |-> <<>>, handed |-> <<>>, appeared |-> {}]

Init == loop_init /\ call = <<>>

(* while True: cycle_ts = iso_now(); rows = []; errors = []; ambitos_ok = 0 *)
BeginCycle ==
    /\ pc = "while"
    /\ cycle < MaxCycles
    /\ cycle' = cycle + 1
    /\ rows' = <<>>
    /\ errors' = <<>>
    /\ ambitos_ok' = 0
    /\ ci' = 1
    /\ pc' = "for"
    /\ hist' = [hist EXCEPT !.outcome = <<>>, !.expected = {}, !.n_incr = 0,
                            !.n_final = 0, !.last_rows = rows]
    /\ UNCHANGED <<env, sen_id, dip_id, pba_id, distritos, prev_rows_by_key,
                   prev_mesas_pct_by_key, csv, fallback_csv, run_log, call>>

(* for cid, cname in (...): try: resolve_pba_and_districts(cid) *)
ForCategoria ==
    /\ pc = "for"
    /\ ci <= Len(Categorias)
    /\ \E c \in CatalogResults :
          IF Categorias[ci].cid = ""
          THEN /\ ci' = ci + 1
               /\ pc' = "for"
               /\ UNCHANGED <<pba_id, distritos, hist, errors>>
          ELSE IF c.raised
          THEN /\ errors' = Append(errors, Err("catalogo", <<>>, Categorias[ci].cid))
               /\ ci' = ci + 1
               /\ pc' = "for"
               /\ UNCHANGED <<pba_id, distritos, hist>>
          ELSE /\ pba_id' = c.pba_id
               /\ distritos' = c.distritos
               /\ pc' = "nacional"
               /\ hist' = [hist EXCEPT !.expected = @ \cup ScopesOf(Categorias[ci].cname, c)]
               /\ UNCHANGED <<ci, errors>>
    /\ UNCHANGED <<env, sen_id, dip_id, cycle, rows, ambitos_ok, prev_rows_by_key,
                   prev_mesas_pct_by_key, csv, fallback_csv, run_log, call>>

(* NACIONAL: todas las fuerzas, ranking completo *)
Nacional ==
    /\ pc = "nacional"
    /\ \E f \in Fetches, w \in WriteOutcomes :
          LET r == reconcile_scope("NACIONAL", "AR", "", "nacional", f, w)
          IN /\ AfterScope(<<"NACIONAL", "AR", Categorias[ci].cname>>, f, r)
             /\ pc' = IF r.crashed THEN "crashed"
                      ELSE IF pba_id # "" THEN "pba"
                      ELSE IF distritos # <<>> THEN "provincias" ELSE "for"
             /\ ci' = IF r.crashed \/ pba_id # "" \/ distritos # <<>> THEN ci ELSE ci + 1
             /\ UNCHANGED distritos

(* PBA: todas las fuerzas, ranking completo *)
Pba ==
    /\ pc = "pba"
    /\ \E f \in Fetches, w \in WriteOutcomes :
          LET r == reconcile_scope("PBA", "PBA", PbaName, "pba", f, w)
          IN /\ AfterScope(<<"PBA", "PBA", Categorias[ci].cname>>, f, r)
             /\ pc' = IF r.crashed THEN "crashed"
                      ELSE IF distritos # <<>> THEN "provincias" ELSE "for"
             /\ ci' = IF r.crashed \/ distritos # <<>> THEN ci ELSE ci + 1
             /\ UNCHANGED distritos

(* Provincias: for d in distritos or [] *)
Provincia ==
    /\ pc = "provincias"
    /\ distritos # <<>>
    /\ \E f \in Fetches, w \in WriteOutcomes :
          LET d == Head(distritos)
              r == reconcile_scope("PROVINCIA", d.distritoId, d.nombre, "prov", f, w)
          IN /\ AfterScope(<<"PROVINCIA", d.distritoId, Categorias[ci].cname>>, f, r)
             /\ distritos' = IF r.crashed THEN distritos ELSE Tail(distritos)
             /\ pc' = IF r.crashed THEN "crashed"
                      ELSE IF Tail(distritos) # <<>> THEN "provincias" ELSE "for"
             /\ ci' = IF r.crashed \/ Tail(distritos) # <<>> THEN ci ELSE ci + 1

(* if rows: prev_rows_by_key = index_rows_by_key(rows) *)
save_prev_rows(cycle_rows, prev) ==
    IF cycle_rows # <<>> THEN index_rows_by_key(cycle_rows) ELSE prev

(* Validaciones por ambito: the warnings, in the order of by_key *)
validation_warnings(cycle_rows) ==
    LET by_key == index_rows_by_key(cycle_rows)
    IN Concat([i \in 1..Len(by_key) |->
                 validate_rows_per_ambito(by_key[i].key, by_key[i].rows)])

(* The final write without its `if rows` guard. *)
final_write_unguarded(cycle_rows, errs, w) ==
    LET f == atomic_write_csv(cycle_rows, w, Files)
    IN [csv |-> f.csv, fallback_csv |-> f.fallback_csv, wrote |-> TRUE,
        errors |-> IF f.raised THEN Append(errs, Err("csv", <<>>, "")) ELSE errs]

(* if rows: atomic_write_csv(rows, csv_path) else: "skip write" *)
final_write(cycle_rows, errs, w) ==
    IF cycle_rows # <<>>
    THEN LET f == atomic_write_csv(cycle_rows, w, Files)
         IN [csv |-> f.csv, fallback_csv |-> f.fallback_csv, wrote |-> TRUE,
             errors |-> IF f.raised THEN Append(errs, Err("csv", <<>>, "")) ELSE errs]
    ELSE [csv |-> csv, fallback_csv |-> fallback_csv, wrote |-> FALSE,
          errors |-> Append(errs, Err("skip write: no rows this cycle", <<>>, ""))]

(* After the for loop: save the previous state, validate, write, log, sleep *)
EndCycle ==
    /\ pc = "for"
    /\ ci > Len(Categorias)
    /\ \E w \in WriteOutcomes :
          LET wr == final_write(rows, errors \o validation_warnings(rows), w)
          IN /\ prev_rows_by_key' = save_prev_rows(rows, prev_rows_by_key)
             /\ errors' = wr.errors
             /\ csv' = wr.csv
             /\ fallback_csv' = wr.fallback_csv
             /\ run_log' = [ts |-> cycle, ambitos_ok |-> ambitos_ok, errors |-> wr.errors]
             /\ hist' = [hist EXCEPT
                           !.n_final = IF wr.wrote THEN @ + 1 ELSE @,
                           !.handed = IF wr.wrote THEN rows ELSE @,
                           !.appeared = IF wr.wrote
                                        THEN @ \cup {KeyOf(rows[i]) : i \in 1..Len(rows)}
                                        ELSE @]
    /\ pc' = "while"
    /\ UNCHANGED <<env, sen_id, dip_id, cycle, ci, pba_id, distritos, rows, ambitos_ok,
                   prev_mesas_pct_by_key, call>>

Next == BeginCycle \/ ForCategoria \/ Nacional \/ Pba \/ Provincia \/ EndCycle

Spec == Init /\ [][Next]_vars

----------------------------------------------------------------------------
(* Snapshots *)

(* The rows of a snapshot that belong to a scope key, in order. *)
RowsOf(rs, key) == SelectSeq(rs, LAMBDA r : KeyOf(r) = key)

KeysIn(rs) == {KeyOf(rs[i]) : i \in 1..Len(rs)}

Identities(rs) == {unique_key_of(rs[i]) : i \in 1..Len(rs)}

(* The progress values (hundredths) the rows of a snapshot carry. *)
MesasOf(rs) == {ParseFloat(rs[i].mesas_pct) : i \in 1..Len(rs)}

(* The cycle is over: the loop is back at its top, after the final write. *)
CycleDone == pc = "while" /\ cycle > 0

(* The snapshots a reader or an operator can see. *)
Published == {csv, fallback_csv, hist.handed}

----------------------------------------------------------------------------
(* C1. Monotonic progress: whenever the published file is replaced (by an
   incremental or a final write, after any sequence of fetched values,
   fetch failures and empty results), every scope key that has rows in the
   old and in the new content carries in the new content a progress
   (mesas_pct) at least as high as in the old one. *)
C1_MonotonicProgress ==
    [][\A k \in KeysIn(csv) \cap KeysIn(csv') :
         \A old \in MesasOf(RowsOf(csv, k)), new \in MesasOf(RowsOf(csv', k)) :
            new >= old]_vars

(* C1 witness: the published file holds rows of cycle 2 built from a fetch
   whose progress (8.000) is below the progress of cycle 1 (10.005): the
   guard has overridden it with 10.00. *)
C1_Witness ==
    \E i \in 1..Len(csv) :
       /\ csv[i].ts_iso = 2
       /\ csv[i].votos_pct = [neg |-> FALSE, cents |-> 4500]
       /\ csv[i].mesas_pct = [neg |-> FALSE, cents |-> 1000]

(* C2. Fallback fidelity: a scope whose fetch failed or yielded no rows in
   this cycle, and which had rows in the final output of the previous cycle,
   contributes to this cycle's output exactly those rows, field for field;
   so does the snapshot handed to the final write. *)
C2_FallbackFidelity ==
    \A k \in DOMAIN hist.outcome :
       (hist.outcome[k].res \in {"fail", "empty"} /\ RowsOf(hist.last_rows, k) # <<>>)
       => /\ RowsOf(rows, k) = RowsOf(hist.last_rows, k)
          /\ CycleDone => RowsOf(hist.handed, k) = RowsOf(hist.last_rows, k)

(* C2 witness: a cycle has ended in which a scope published in the previous
   cycle failed to fetch and another one returned no rows. *)
C2_Witness ==
    /\ CycleDone
    /\ \E k1, k2 \in DOMAIN hist.outcome :
          /\ hist.outcome[k1].res = "fail"
          /\ hist.outcome[k2].res = "empty"
          /\ RowsOf(hist.last_rows, k1) # <<>>
          /\ RowsOf(hist.last_rows, k2) # <<>>

(* C3, as claimed. No silent disappearance: whenever the fetch of a scope
   returned, every identity the scope had in the previous cycle's output
   and that the raw fetch lacks is in the scope's rows of this cycle with
   vote share "0.00". *)
C3_NoSilentDisappearance_Claimed ==
    \A k \in DOMAIN hist.outcome :
       hist.outcome[k].fetched
       => \A id \in Identities(RowsOf(hist.last_rows, k)) \ hist.outcome[k].ids :
             \E i \in 1..Len(rows) :
                /\ KeyOf(rows[i]) = k
                /\ unique_key_of(rows[i]) = id
                /\ rows[i].votos_pct = ZeroPct

(* C3, amended. The same, for a scope whose fetch yielded at least one row
   in this cycle (a fetch that yields no row falls back to the previous
   rows, which keep their vote shares). *)
C3_NoSilentDisappearance ==
    \A k \in DOMAIN hist.outcome :
       hist.outcome[k].res = "ok"
       => \A id \in Identities(RowsOf(hist.last_rows, k)) \ hist.outcome[k].ids :
             \E i \in 1..Len(rows) :
                /\ KeyOf(rows[i]) = k
                /\ unique_key_of(rows[i]) = id
                /\ rows[i].votos_pct = ZeroPct
                /\ CycleDone => rows[i] \in SeqToSet(hist.handed)

(* C3 witness: a scope succeeded in this cycle with a fetch that lacks two
   identities of its previous rows, one of them the empty identity. *)
C3_Witness ==
    /\ CycleDone
    /\ \E k \in DOMAIN hist.outcome :
          /\ hist.outcome[k].res = "ok"
          /\ {"2", ""} \subseteq Identities(RowsOf(hist.last_rows, k)) \ hist.outcome[k].ids

(* C4. Rank contiguity: in every snapshot (the published file, the fallback
   artifact, the rows last handed to the writer) the ranks of the rows of
   each scope key are exactly 1..N, N the number of rows of the scope. *)
C4_RankContiguity ==
    \A snap \in Published :
       \A k \in KeysIn(snap) :
          LET rs == RowsOf(snap, k)
          IN /\ {rs[i].puesto : i \in 1..Len(rs)} = 1..Len(rs)
             /\ \A i, j \in 1..Len(rs) : rs[i].puesto = rs[j].puesto => i = j

(* C4 witness: the published file holds a scope of three rows ranked in
   cycle 2, two of them reinstated stubs, beside rows of cycle 1 reused
   for other scopes. *)
C4_Witness ==
    \E k \in KeysIn(csv) :
       LET rs == RowsOf(csv, k)
       IN /\ Len(rs) = 3
          /\ \A i \in 1..3 : rs[i].ts_iso = 2
          /\ rs[2].votos_pct = ZeroPct /\ rs[3].votos_pct = ZeroPct
          /\ \E i \in 1..Len(csv) : csv[i].ts_iso = 1

(* C5. Never-empty publication: a write never replaces a non-empty
   published file by one with zero rows; every invocation of the writer
   hands it at least one row; and a cycle that accumulated no rows ends
   without any invocation of the writer and with the skip recorded in its
   diagnostics. *)
C5_NeverEmpty ==
    [][/\ csv # <<>> => csv' # <<>>
       /\ fallback_csv # <<>> => fallback_csv' # <<>>
       /\ (hist'.n_incr > hist.n_incr \/ hist'.n_final > hist.n_final)
          => hist'.handed # <<>>
       /\ (pc = "for" /\ pc' = "while" /\ rows = <<>>)
          => /\ hist'.n_incr = 0 /\ hist'.n_final = 0
             /\ UNCHANGED <<csv, fallback_csv>>
             /\ Err("skip write: no rows this cycle", <<>>, "") \in SeqToSet(errors')
             /\ run_log'.errors = errors']_vars

(* C5 witness: the second cycle accumulated no rows (every catalog lookup
   failed) and has ended, the file published by the first cycle still there. *)
C5_Witness ==
    /\ CycleDone /\ cycle = 2
    /\ rows = <<>>
    /\ csv # <<>>
    /\ hist.n_incr = 0 /\ hist.n_final = 0

(* C6. Previous-state retention: the end of a cycle changes the
   previous-state table only for scope keys that produced at least one row
   in the cycle; every key of the table without a row in the cycle keeps
   its entry unchanged. *)
C6_PrevRetention ==
    [][(pc = "for" /\ pc' = "while")
       => \A k \in DictKeys(prev_rows_by_key) :
             RowsOf(rows, k) = <<>>
             => DictGet(prev_rows_by_key', k) = DictGet(prev_rows_by_key, k)]_vars

(* C7. No scope is ever lost: every scope key that has appeared in the
   rows handed to the final write of some cycle has rows in the rows handed
   to the final write of every later cycle. *)
C7_NoScopeLost ==
    (CycleDone /\ hist.n_final = 1) => hist.appeared \subseteq KeysIn(hist.handed)

(* C8, as claimed. Single publication per cycle: the writer is invoked at
   most once in a cycle, and only once every scope of the cycle has been
   reconciled. *)
C8_SinglePublication_Claimed ==
    /\ hist.n_incr + hist.n_final <= 1
    /\ hist.n_incr + hist.n_final = 1 => CycleDone

(* C8, amended. The final write of the accumulated rows is invoked at most
   once in a cycle, and only once every scope of the cycle has been
   reconciled; besides it, the writer is invoked once after each scope that
   succeeded, so ambitos_ok times before the final write. *)
C8_PublicationCount ==
    /\ hist.n_final <= 1
    /\ hist.n_final = 1
       => /\ CycleDone
          /\ hist.expected \subseteq DOMAIN hist.outcome
          /\ hist.handed = rows
    /\ hist.n_incr = ambitos_ok
    /\ hist.n_incr = Cardinality({k \in DOMAIN hist.outcome : hist.outcome[k].res = "ok"})

(* C8 witness: a cycle has ended after three incremental writes and its
   final write. *)
C8_Witness ==
    CycleDone /\ hist.n_incr = 3 /\ hist.n_final = 1

(* C9. Per-scope failure isolation: no failure of a scope leaves the loop;
   at the end of a cycle every scope of every category whose catalog was
   resolved has been reconciled, whatever scopes failed, the rows of each
   scope that succeeded are among the accumulated rows, and these were
   handed to the final write. *)
C9_FailureIsolation ==
    /\ pc # "crashed"
    /\ CycleDone
       => /\ hist.expected \subseteq DOMAIN hist.outcome
          /\ \A k \in DOMAIN hist.outcome :
                hist.outcome[k].res = "ok" => RowsOf(rows, k) # <<>>
          /\ rows # <<>> => (hist.n_final = 1 /\ hist.handed = rows)
          /\ run_log.ts = cycle

(* C9 witness: a cycle has ended in which NACIONAL failed with nothing to
   fall back on, PBA succeeded after it and the province returned no rows;
   the rows of PBA are published. *)
C9_Witness ==
    /\ CycleDone
    /\ DOMAIN hist.outcome = {<<"NACIONAL", "AR", "SENADORES">>,
                              <<"PBA", "PBA", "SENADORES">>,
                              <<"PROVINCIA", "02", "SENADORES">>}
    /\ hist.outcome[<<"NACIONAL", "AR", "SENADORES">>].res = "fail"
    /\ hist.outcome[<<"PBA", "PBA", "SENADORES">>].res = "ok"
    /\ hist.outcome[<<"PROVINCIA", "02", "SENADORES">>].res = "empty"
    /\ KeysIn(csv) = {<<"PBA", "PBA", "SENADORES">>}
    /\ csv = rows

(* C10. Non-empty identity: every row of every snapshot has a non-empty
   identity (its stripped agrupacion_id or, failing that, its stripped
   agrupacion). *)
C10_NonEmptyIdentity ==
    \A snap \in Published :
       \A i \in 1..Len(snap) : unique_key_of(snap[i]) # ""

----------------------------------------------------------------------------
(* atomic_write_csv, step by step.  A file is <<>> when it does not exist,
   else <<[header, rows]>>: whether the header line is in it and the rows
   written to it so far.  call holds the argument rows, the three files
   (tmp_path, csv_path, fallback_path), the position pc in the function,
   old (the published file before the call), replace_failed (the first
   replace raised) and errors (what the caller's except clause recorded). *)

NoFile == <<>>
FileOf(rs) == <<[header |-> TRUE, rows |-> rs]>>
Truncated == <<[header |-> FALSE, rows |-> <<>>]>>

(* Two snapshots main() hands to the writer. *)
SnapshotA ==
    AssignPuesto(build_rows_full(FetchFirst.res, "NACIONAL", "AR", "", "SENADORES",
                                 1, FetchFirst.est).rows)
SnapshotB ==
    AssignPuesto(build_rows_full(FetchSecond.res, "NACIONAL", "AR", "", "SENADORES",
                                 2, FetchSecond.est).rows)

write_init ==
    /\ loop_init /\ env = "disco"
    /\ \E rs \in {SnapshotA, SnapshotB},
          old \in {NoFile, FileOf(SnapshotA), FileOf(SnapshotB)},
          fb \in {NoFile, FileOf(SnapshotB)} :
          call = [rows |-> rs, pc |-> "tmp_open", tmp_path |-> NoFile,
                  csv_path |-> old, fallback_path |-> fb, old |-> old,
                  replace_failed |-> FALSE, errors |-> <<>>]

(* with tmp_path.open("w", ...) as f: creates or truncates the file *)
tmp_open ==
    /\ call.pc = "tmp_open"
    /\ \/ call' = [call EXCEPT !.tmp_path = Truncated, !.pc = "tmp_write"]
       \/ call' = [call EXCEPT !.pc = "raise"]
    /\ UNCHANGED loop_vars

(* writer.writerow(friendly_header()); writer.writerows(rows); an error on
   the way leaves in the temporary file what was written before it. *)
tmp_write ==
    /\ call.pc = "tmp_write"
    /\ \/ call' = [call EXCEPT !.tmp_path = FileOf(call.rows), !.pc = "replace"]
       \/ \E n \in 0..(Len(call.rows) - 1) :
             call' = [call EXCEPT !.tmp_path = FileOf(SubSeq(call.rows, 1, n)),
                                  !.pc = "raise"]
    /\ UNCHANGED loop_vars

(* try: tmp_path.replace(csv_path) *)
replace_csv ==
    /\ call.pc = "replace"
    /\ \/ call' = [call EXCEPT !.csv_path = call.tmp_path, !.tmp_path = NoFile,
                               !.pc = "return"]
       \/ call' = [call EXCEPT !.replace_failed = TRUE, !.pc = "unlink"]
    /\ UNCHANGED loop_vars

(* if fallback_path.exists(): fallback_path.unlink(missing_ok=True) *)
unlink_fallback ==
    /\ call.pc = "unlink"
    /\ IF call.fallback_path = NoFile
       THEN call' = [call EXCEPT !.pc = "replace_fallback"]
       ELSE \/ call' = [call EXCEPT !.fallback_path = NoFile, !.pc = "replace_fallback"]
            \/ call' = [call EXCEPT !.pc = "direct_open"]
    /\ UNCHANGED loop_vars

(* tmp_path.replace(fallback_path); the warning written to run.log after it
   is inside its own try/except *)
replace_fallback ==
    /\ call.pc = "replace_fallback"
    /\ \/ call' = [call EXCEPT !.fallback_path = call.tmp_path, !.tmp_path = NoFile,
                               !.pc = "return"]
       \/ call' = [call EXCEPT !.pc = "direct_open"]
    /\ UNCHANGED loop_vars

(* except Exception: with csv_path.open("w", ...) as f2: the published file
   is truncated as it is opened *)
direct_open ==
    /\ call.pc = "direct_open"
    /\ \/ call' = [call EXCEPT !.csv_path = Truncated, !.pc = "direct_write"]
       \/ call' = [call EXCEPT !.pc = "raise"]
    /\ UNCHANGED loop_vars

(* writer2.writerow(friendly_header()); writer2.writerows(rows), a line at
   a time, into the published file itself *)
direct_write ==
    /\ call.pc = "direct_write"
    /\ LET f == call.csv_path[1]
       IN \/ /\ ~f.header
             /\ call' = [call EXCEPT !.csv_path = <<[f EXCEPT !.header = TRUE]>>]
          \/ /\ f.header /\ Len(f.rows) < Len(call.rows)
             /\ call' = [call EXCEPT !.csv_path =
                            <<[f EXCEPT !.rows = Append(@, call.rows[Len(f.rows) + 1])]>>]
          \/ /\ f.header /\ Len(f.rows) = Len(call.rows)
             /\ call' = [call EXCEPT !.pc = "return"]
          \/ /\ Len(f.rows) < Len(call.rows)
             /\ call' = [call EXCEPT !.pc = "raise"]
    /\ UNCHANGED loop_vars

(* main(): try: atomic_write_csv(rows, csv_path)
           except Exception as e: errors.append(f"csv: {e}")
   and the loop goes on to its cycle log. *)
write_caller ==
    /\ call.pc \in {"return", "raise"}
    /\ call' = [call EXCEPT !.pc = "log",
                            !.errors = IF call.pc = "raise"
                                       THEN Append(@, Err("csv", <<>>, "")) ELSE @]
    /\ UNCHANGED loop_vars

write_next ==
    \/ tmp_open \/ tmp_write \/ replace_csv \/ unlink_fallback \/ replace_fallback
    \/ direct_open \/ direct_write \/ write_caller

SpecWrite == write_init /\ [][write_next]_vars

(* C11. Atomic publication with fallback artifact: at every step of
   atomic_write_csv the published file is the complete old snapshot or the
   complete new one; when the replace of the published file fails and the
   function returns, the rows are in the fallback artifact or in the
   published file; and whatever fails, the caller reaches its cycle log. *)
C11_AtomicPublication ==
    /\ call.csv_path \in {call.old, FileOf(call.rows)}
    /\ (call.replace_failed /\ call.pc = "return")
       => FileOf(call.rows) \in {call.fallback_path, call.csv_path}
    /\ call.pc # "log" => ENABLED write_next

----------------------------------------------------------------------------
(* truncate_2 on its own: call holds the argument x (thousandths) and out,
   <<>> until the function has returned, then the string it returned. *)

(* The largest argument explored besides the two further examples. *)
MaxMilli == 600

TruncateInputs == (-MaxMilli..MaxMilli) \cup {29995, -29995}

truncate_init ==
    /\ loop_init /\ env = "disco"
    /\ \E x \in TruncateInputs : call = [x |-> x, out |-> <<>>]

truncate_call ==
    /\ call.out = <<>>
    /\ call' = [call EXCEPT !.out = <<truncate_2(call.x)>>]
    /\ UNCHANGED loop_vars

SpecTruncate == truncate_init /\ [][truncate_call]_vars

(* C12. Truncation, not rounding: the string truncate_2 returns keeps the
   sign of its argument, does not exceed it in absolute value and differs
   from it by less than 0.01; truncate_2(29.995) is "29.99" and
   truncate_2(-0.004) is "-0.00". *)
C12_Truncation ==
    call.out # <<>>
    => LET s == call.out[1]
       IN /\ s.neg = (call.x < 0)
          /\ s.cents * 10 <= Abs(call.x)
          /\ Abs(call.x) - s.cents * 10 < 10
          /\ call.x = 29995 => s = [neg |-> FALSE, cents |-> 2999]
          /\ call.x = -4 => s = [neg |-> TRUE, cents |-> 0]

----------------------------------------------------------------------------
(* One scope at a time: the NACIONAL block of main() and the end of the
   cycle, in the environment "fuerzas", started either in the first cycle
   (no previous state) or in the second, after a first cycle in which
   NACIONAL fetched FetchFirst and published SnapshotA. *)

NacionalKey == <<"NACIONAL", "AR", "SENADORES">>

scope_init ==
    /\ env = "fuerzas"
    /\ sen_id = CategoryIds(env).sen_id
    /\ dip_id = CategoryIds(env).dip_id
    /\ pc = "nacional"
    /\ ci = 1
    /\ pba_id = ""
    /\ distritos = <<>>
    /\ rows = <<>>
    /\ errors = <<>>
    /\ ambitos_ok = 0
    /\ fallback_csv = <<>>
    /\ call = <<>>
    /\ \/ /\ cycle = 1
          /\ prev_rows_by_key = <<>>
          /\ prev_mesas_pct_by_key = <<>>
          /\ csv = <<>>
          /\ run_log = <<>>
          /\ hist = [outcome |-> <<>>, expected |-> {NacionalKey}, n_incr |-> 0,
                     n_final |-> 0, last_rows |-> <<>>, handed |-> <<>>,
                     appeared |-> {}]
       \/ /\ cycle = 2
          /\ prev_rows_by_key = index_rows_by_key(SnapshotA)
          /\ prev_mesas_pct_by_key = [k \in {NacionalKey} |-> 10005]
          /\ csv = SnapshotA
          /\ run_log = [ts |-> 1, ambitos_ok |-> 1, errors |-> <<>>]
          /\ hist = [outcome |-> <<>>, expected |-> {NacionalKey}, n_incr |-> 0,
                     n_final |-> 0, last_rows |-> SnapshotA, handed |-> SnapshotA,
                     appeared |-> {NacionalKey}]

scope_next == Nacional \/ ForCategoria \/ EndCycle

SpecScope == scope_init /\ [][scope_next]_vars

(* The second start of SpecScope is the state main() is in when its second
   cycle reaches NACIONAL after such a first cycle. *)
ScopeStartReached ==
    /\ cycle = 2 /\ pc = "nacional" /\ ci = 1 /\ pba_id = "" /\ distritos = <<>>
    /\ rows = <<>> /\ errors = <<>> /\ ambitos_ok = 0 /\ fallback_csv = <<>>
    /\ prev_rows_by_key = index_rows_by_key(SnapshotA)
    /\ prev_mesas_pct_by_key = [k \in {NacionalKey} |-> 10005]
    /\ csv = SnapshotA
    /\ run_log = [ts |-> 1, ambitos_ok |-> 1, errors |-> <<>>]
    /\ hist = [outcome |-> <<>>, expected |-> {NacionalKey}, n_incr |-> 0,
               n_final |-> 0, last_rows |-> SnapshotA, handed |-> SnapshotA,
               appeared |-> {NacionalKey}]

(* The raw items a scope fetched in this cycle. *)
ItemsOf(k) == hist.outcome[k].fetch.res.valoresTotalizadosPositivos

(* Among the raw items with the identity of items[n], the one that comes
   first in descending order of share, the earlier of two equal shares. *)
FirstOfIdentity(items, n) ==
    LET same == {m \in 1..Len(items) : ItemIdentity(items[m]) = ItemIdentity(items[n])}
    IN CHOOSE m \in same :
          \A m2 \in same : \/ pct_of(items[m]) > pct_of(items[m2])
                           \/ pct_of(items[m]) = pct_of(items[m2]) /\ m <= m2

(* C13. Deduplication: the rows of a scope that succeeded hold at most one
   row per identity, and for each identity of the fetch the row kept is the
   one of its first item in descending order of share. *)
C13_Deduplication ==
    \A k \in DOMAIN hist.outcome :
       hist.outcome[k].res = "ok"
       => LET items == ItemsOf(k)
              out == RowsOf(rows, k)
          IN /\ \A i, j \in 1..Len(out) :
                   unique_key_of(out[i]) = unique_key_of(out[j]) => i = j
             /\ \A n \in 1..Len(items) :
                   LET it == items[FirstOfIdentity(items, n)]
                   IN \E i \in 1..Len(out) :
                         /\ out[i].agrupacion_id = it.idAgrupacion
                         /\ out[i].agrupacion = StrOr(it.nombreAgrupacion, it.nombre)
                         /\ out[i].votos_pct = truncate_2(pct_of(it))

(* C13 witness: in the second cycle a fetch of three items, two of them
   with the same identity and the smaller share first, has given two
   current rows beside the two stubs. *)
C13_Witness ==
    /\ cycle = 2
    /\ NacionalKey \in DOMAIN hist.outcome
    /\ hist.outcome[NacionalKey].res = "ok"
    /\ ItemsOf(NacionalKey) = << Item("1", "A2", Num(20000)), Item("1", "A", Num(30000)),
                                 Item("", "A ", Num(20000)) >>
    /\ Len(RowsOf(rows, NacionalKey)) = 4

(* The index of the raw item a current row of a scope was built of. *)
ItemIndexOf(items, r) ==
    FirstOfIdentity(items, CHOOSE n \in 1..Len(items) :
                               ItemIdentity(items[n]) = unique_key_of(r))

(* The rank an identity had in the rows rs. *)
PuestoIn(rs, id) ==
    rs[CHOOSE i \in 1..Len(rs) : unique_key_of(rs[i]) = id].puesto

(* C14. Sort order and stability: in every scope of every snapshot the
   vote share does not increase as the rank increases; in a scope that
   succeeded, of two rows of equal share a current row is ranked before a
   stub, two stubs are ranked as they were in the previous cycle and two
   current rows as build_rows_full ordered their items; and after a first
   cycle A=40.12, B=35.00, third=0.00 at progress 10, a fetch of A=45.00
   alone at progress 8 gives A first at 45.00, then the stubs of B and of
   the third at 0.00, all with progress 10.00. *)
C14_SortStability ==
    /\ \A snap \in Published :
          \A i, j \in 1..Len(snap) :
             (KeyOf(snap[i]) = KeyOf(snap[j]) /\ snap[i].puesto < snap[j].puesto)
             => votos_float(snap[i]) >= votos_float(snap[j])
    /\ \A k \in DOMAIN hist.outcome :
          hist.outcome[k].res = "ok"
          => LET out == RowsOf(rows, k)
                 items == ItemsOf(k)
                 prev == RowsOf(hist.last_rows, k)
                 IsStub(r) == unique_key_of(r) \notin hist.outcome[k].ids
             IN /\ \A i, j \in 1..Len(out) :
                      (out[i].puesto < out[j].puesto
                         /\ votos_float(out[i]) = votos_float(out[j]))
                      => /\ ~(IsStub(out[i]) /\ ~IsStub(out[j]))
                         /\ (IsStub(out[i]) /\ IsStub(out[j]))
                            => PuestoIn(prev, unique_key_of(out[i]))
                                  < PuestoIn(prev, unique_key_of(out[j]))
                         /\ (~IsStub(out[i]) /\ ~IsStub(out[j]))
                            => LET m == ItemIndexOf(items, out[i])
                                   n == ItemIndexOf(items, out[j])
                               IN \/ pct_of(items[m]) > pct_of(items[n])
                                  \/ pct_of(items[m]) = pct_of(items[n]) /\ m < n
                /\ (hist.outcome[k].fetch = FetchSecond /\ hist.last_rows = SnapshotA)
                   => /\ [i \in 1..Len(out) |-> unique_key_of(out[i])] = <<"1", "2", "">>
                      /\ [i \in 1..Len(out) |-> out[i].puesto] = <<1, 2, 3>>
                      /\ [i \in 1..Len(out) |-> out[i].votos_pct.cents] = <<4500, 0, 0>>
                      /\ \A i \in 1..Len(out) :
                            out[i].mesas_pct = [neg |-> FALSE, cents |-> 1000]

(* C14 witness: in the second cycle the fetch returned one item without
   share, C; its row is ranked first, before the stubs of A, B and the
   third of the first cycle, all at 0.00 and in their previous order. *)
C14_Witness ==
    /\ cycle = 2
    /\ NacionalKey \in DOMAIN hist.outcome
    /\ hist.outcome[NacionalKey].res = "ok"
    /\ ItemsOf(NacionalKey) = << Item("3", "C", NoVal) >>
    /\ [i \in 1..Len(rows) |-> unique_key_of(rows[i])] = <<"3", "1", "2", "">>
    /\ \A i \in 1..Len(rows) : rows[i].votos_pct = ZeroPct /\ rows[i].puesto = i

(* The two-cycle scenario of C14 has happened. *)
C14_ScenarioReached ==
    /\ NacionalKey \in DOMAIN hist.outcome
    /\ hist.outcome[NacionalKey].fetch = FetchSecond
    /\ hist.last_rows = SnapshotA
    /\ Len(rows) = 3

(* Neither percentage field of a raw item holds a number. *)
HasNoNumber(it) == it.votosPorcentaje.k # "num" /\ it.porcentajeVotos.k # "num"

(* C15. Field-level defaulting of vote share: a fetch that returns items
   makes the scope succeed whatever their percentage fields hold; every
   item has a row; an identity whose items hold no number in either
   percentage field has its row at vote share 0.00; and the cycle goes on. *)
C15_FieldDefaulting ==
    /\ pc # "crashed"
    /\ \A k \in DOMAIN hist.outcome :
          (hist.outcome[k].fetched /\ ItemsOf(k) # <<>>)
          => LET items == ItemsOf(k)
                 out == RowsOf(rows, k)
             IN /\ hist.outcome[k].res = "ok"
                /\ \A n \in 1..Len(items) :
                      \E i \in 1..Len(out) :
                         /\ unique_key_of(out[i]) = ItemIdentity(items[n])
                         /\ (\A m \in 1..Len(items) :
                                ItemIdentity(items[m]) = ItemIdentity(items[n])
                                => HasNoNumber(items[m]))
                            => out[i].votos_pct = ZeroPct

(* C16. Uniform progress within a scope: in every snapshot all the rows of
   one scope key carry the same progress (mesas_pct). *)
C16_UniformProgress ==
    \A snap \in Published :
       \A i, j \in 1..Len(snap) :
          KeyOf(snap[i]) = KeyOf(snap[j]) => snap[i].mesas_pct = snap[j].mesas_pct

(* C16 witness: the published file holds, beside the rows of another
   scope, a scope of this cycle whose fetch brought one item at progress
   8.0: its row and the two stubs carry the progress 10.00 of the guard. *)
C16_Witness ==
    /\ Cardinality(KeysIn(csv)) >= 2
    /\ \E k \in DOMAIN hist.outcome :
          /\ hist.outcome[k].fetch = FetchSecond
          /\ hist.outcome[k].res = "ok"
          /\ Len(RowsOf(csv, k)) = 3
          /\ \A i \in 1..3 : /\ RowsOf(csv, k)[i].ts_iso = cycle
                             /\ RowsOf(csv, k)[i].mesas_pct = [neg |-> FALSE, cents |-> 1000]

(* The diagnostics a scope block recorded about its fetch in this cycle. *)
FetchDiagnostics(k) ==
    SelectSeq(errors, LAMBDA e : e.scope = k /\ e.tag \in {"nacional", "pba", "prov",
                                                           "empty resultados"})

(* C17. Success count and fallback: ambitos_ok is the number of scopes of
   the cycle whose fetch returned at least one item that became a row; a
   scope whose fetch failed or returned none has recorded exactly one
   diagnostic, "empty resultados" for an empty result and the name of its
   block for a failure, and until the cycle ends its rows are exactly the
   entry of the previous-state table (nothing without entry); the cycle
   log carries the count. *)
C17_SuccessCount ==
    /\ ambitos_ok = Cardinality({k \in DOMAIN hist.outcome :
                                    hist.outcome[k].fetched /\ ItemsOf(k) # <<>>})
    /\ \A k \in DOMAIN hist.outcome :
          hist.outcome[k].res \in {"fail", "empty"}
          => /\ ~(hist.outcome[k].fetched /\ ItemsOf(k) # <<>>)
             /\ Len(FetchDiagnostics(k)) = 1
             /\ (FetchDiagnostics(k)[1].tag = "empty resultados")
                   <=> (hist.outcome[k].res = "empty")
             /\ pc # "while" => RowsOf(rows, k) = DictGet(prev_rows_by_key, k)
    /\ CycleDone => run_log.ambitos_ok = ambitos_ok

(* C17 witness: a second cycle has reconciled three scopes: NACIONAL
   succeeded, PBA failed and the province returned nothing, both falling
   back on rows of the first cycle; ambitos_ok is 1. *)
C17_Witness ==
    /\ cycle = 2 /\ pc = "for"
    /\ ambitos_ok = 1
    /\ \E kn, kp, kd \in DOMAIN hist.outcome :
          /\ kn[1] = "NACIONAL" /\ hist.outcome[kn].res = "ok"
          /\ kp[1] = "PBA" /\ hist.outcome[kp].res = "fail"
          /\ kd[1] = "PROVINCIA" /\ hist.outcome[kd].res = "empty"
          /\ RowsOf(rows, kp) # <<>> /\ RowsOf(rows, kd) # <<>>

----------------------------------------------------------------------------
(* get_resultados and authorized_get, step by step.  call holds pc, the
   position; n_call, which call of authorized_get is running (get_resultados
   makes a second one when the first answer has no JSON body); token, the
   token cache (the number of its renewals); resp, the last response; and
   log, the requests sent and the refreshes asked, in order: an event is
   [call, ev, token, status], ev "get" or "refresh", token the token sent
   or the token the refresh left in the cache. *)

(* What requests.get gives: a response [status, body], body "json",
   "empty" or "text" (not JSON), or an exception (status 0). *)
Responses ==
    { [status |-> 200, body |-> "json"], [status |-> 200, body |-> "empty"],
      [status |-> 200, body |-> "text"], [status |-> 401, body |-> "text"],
      [status |-> 500, body |-> "text"], [status |-> 0, body |-> "empty"] }

Event(ev, status) ==
    [call |-> call.n_call, ev |-> ev, token |-> call.token, status |-> status]

(* After the retry a 401 is answered by a refresh and a retry once more. *)
after_retry_again(status) ==
    IF status = 0 THEN "raised"
    ELSE IF status = 401 THEN "refresh" ELSE "raise_for_status"

(* After the first request: if resp.status_code == 401: refresh and retry *)
after_initial(status) ==
    IF status = 0 THEN "raised"
    ELSE IF status = 401 THEN "refresh" ELSE "raise_for_status"

(* After the retry: resp.raise_for_status() *)
after_retry(status) ==
    IF status = 0 THEN "raised" ELSE "raise_for_status"

fetch_init ==
    /\ loop_init /\ env = "disco"
    /\ \E d \in {"", "02"} :
          call = [pc |-> "request", distrito_id |-> d, n_call |-> 1, token |-> 0,
                  resp |-> [status |-> 0, body |-> "empty"], log |-> <<>>]

(* token = token_provider(); resp = requests.get(url, headers=..., ...) *)
ag_request ==
    /\ call.pc = "request"
    /\ \E r \in Responses :
          call' = [call EXCEPT !.resp = r, !.log = Append(@, Event("get", r.status)),
                               !.pc = after_initial(r.status)]
    /\ UNCHANGED loop_vars

(* token_provider(refresh=True): the cache is renewed, or kept when
   get_token_with_retries raises or there are no credentials *)
ag_refresh ==
    /\ call.pc = "refresh"
    /\ \E renewed \in BOOLEAN :
          LET token == IF renewed THEN call.token + 1 ELSE call.token
          IN call' = [call EXCEPT !.token = token,
                                  !.log = Append(@, [Event("refresh", 0) EXCEPT
                                                        !.token = token]),
                                  !.pc = "retry"]
    /\ UNCHANGED loop_vars

(* resp = requests.get(url, headers=<the token of the cache>, ...) *)
ag_retry ==
    /\ call.pc = "retry"
    /\ \E r \in Responses :
          call' = [call EXCEPT !.resp = r, !.log = Append(@, Event("get", r.status)),
                               !.pc = after_retry(r.status)]
    /\ UNCHANGED loop_vars

(* resp.raise_for_status(); return resp *)
ag_raise_for_status ==
    /\ call.pc = "raise_for_status"
    /\ call' = [call EXCEPT !.pc = IF call.resp.status >= 400 THEN "raised"
                                   ELSE "content"]
    /\ UNCHANGED loop_vars

(* get_resultados: if not resp.content or not JSON: sleep(1) and call
   authorized_get again; return resp.json() if resp.content else {} *)
gr_content ==
    /\ call.pc = "content"
    /\ call' = IF call.n_call = 1 /\ call.resp.body # "json"
               THEN [call EXCEPT !.n_call = 2, !.pc = "request"]
               ELSE [call EXCEPT !.pc = IF call.resp.body = "text" THEN "raised"
                                        ELSE "returned"]
    /\ UNCHANGED loop_vars

fetch_next == ag_request \/ ag_refresh \/ ag_retry \/ ag_raise_for_status \/ gr_content

SpecFetch == fetch_init /\ [][fetch_next]_vars

(* The events of the log of one call of authorized_get. *)
EventsOf(n) == SelectSeq(call.log, LAMBDA e : e.call = n)

Count(evs, ev, status) ==
    Cardinality({i \in 1..Len(evs) : evs[i].ev = ev /\ evs[i].status = status})

(* C18, as claimed. Auth expiry handling: in one fetch of results a 401
   is followed by one refresh and one retry, and once a second 401 has
   been received the fetch fails with no further refresh and no further
   request: the log ends with that 401. *)
C18_AuthExpiry_Claimed ==
    /\ Count(call.log, "refresh", 0) <= 1
    /\ Count(call.log, "get", 401) >= 2
       => /\ call.log[Len(call.log)] = [call.log[Len(call.log)] EXCEPT
                                           !.ev = "get", !.status = 401]
          /\ Count(call.log, "get", 401) = 2
          /\ call.pc \in {"raise_for_status", "raised"}

(* C18, amended. The same for each call of authorized_get: its events are
   a request, and only when that is answered by 401, one refresh and one
   retry, sent with the token of the cache; a 401 on the retry ends the
   fetch as a failure, with no further refresh and no further request. *)
C18_AuthExpiry ==
    \A n \in 1..call.n_call :
       LET evs == EventsOf(n)
       IN /\ Len(evs) <= 3
          /\ Len(evs) >= 1 => evs[1].ev = "get"
          /\ Len(evs) >= 2 => (evs[1].status = 401 /\ evs[2].ev = "refresh")
          /\ Len(evs) = 3 => (evs[3].ev = "get" /\ evs[3].token = evs[2].token)
          /\ (Len(evs) = 1 /\ evs[1].status = 401) => call.pc = "refresh"
          /\ Len(evs) = 2 => call.pc = "retry"
          /\ (Len(evs) = 3 /\ evs[3].status = 401)
             => /\ call.pc \in {"raise_for_status", "raised"}
                /\ n = call.n_call

(* C18 witness: the fetch has failed on a 401 that answered the retry sent
   with a renewed token. *)
C18_Witness ==
    /\ call.pc = "raised"
    /\ LET evs == EventsOf(call.n_call)
       IN /\ Len(evs) = 3
          /\ evs[1].status = 401 /\ evs[3].status = 401
          /\ evs[3].token = evs[1].token + 1

----------------------------------------------------------------------------
(* get_token_with_retries, step by step.  call holds max_retries, pc,
   attempt (the loop variable), wait_s, last_exc (0 for None, else the HTTP
   status of the last error, 1 for an error that is not an HTTPError; a
   result of <<0>> at "raised" is the RuntimeError of the last line),
   n_create (the calls of create_token so far), slept (the waits slept, in
   order) and result (<<>>, or what the function returned or raised). *)

(* The largest max_retries explored (the callers leave the default, 4). *)
MaxRetries == 6

(* What create_token does: returns a token (200), raises an HTTPError with
   a status (2 for one that carries no response), or raises another
   error (1). *)
CreateOutcomes == {200, 429, 500, 502, 503, 504, 401, 404, 2, 1}

(* A doubling of the wait without its cap. *)
next_wait_uncapped(wait_s) == wait_s * 2

(* wait_s = min(wait_s * 2.0, 16.0) *)
next_wait(wait_s) == IF wait_s * 2 < 16 THEN wait_s * 2 ELSE 16

(* if status and status in (429, 500, 502, 503, 504) *)
retryable(status) == status \in {429, 500, 502, 503, 504}

token_init ==
    /\ loop_init /\ env = "disco"
    /\ \E m \in 0..MaxRetries :
          call = [max_retries |-> m, pc |-> "for", attempt |-> 0, wait_s |-> 1,
                  last_exc |-> 0, n_create |-> 0, slept |-> <<>>, result |-> <<>>]

(* for attempt in range(1, max_retries + 1): ...
   if last_exc: raise last_exc; raise RuntimeError(...) *)
tk_for ==
    /\ call.pc = "for"
    /\ call' = IF call.attempt < call.max_retries
               THEN [call EXCEPT !.attempt = @ + 1, !.pc = "create"]
               ELSE [call EXCEPT !.pc = "raised", !.result = <<call.last_exc>>]
    /\ UNCHANGED loop_vars

(* try: return create_token(...)
   except requests.HTTPError: retry a transient status, else raise
   except Exception: retry *)
tk_create ==
    /\ call.pc = "create"
    /\ \E o \in CreateOutcomes :
          call' = IF o = 200
                  THEN [call EXCEPT !.n_create = @ + 1, !.pc = "returned",
                                    !.result = <<o>>]
                  ELSE IF o = 1 \/ retryable(o)
                  THEN [call EXCEPT !.n_create = @ + 1, !.last_exc = o, !.pc = "sleep"]
                  ELSE [call EXCEPT !.n_create = @ + 1, !.last_exc = o,
                                    !.pc = "raised", !.result = <<o>>]
    /\ UNCHANGED loop_vars

(* time.sleep(wait_s); wait_s = min(wait_s * 2.0, 16.0); continue *)
tk_sleep ==
    /\ call.pc = "sleep"
    /\ call' = [call EXCEPT !.slept = Append(@, call.wait_s),
                            !.wait_s = next_wait(call.wait_s), !.pc = "for"]
    /\ UNCHANGED loop_vars

token_next == tk_for \/ tk_create \/ tk_sleep

SpecToken == token_init /\ [][token_next]_vars /\ WF_vars(token_next)

RECURSIVE Pow2(_)
Pow2(n) == IF n = 0 THEN 1 ELSE 2 * Pow2(n - 1)

(* What holds at every step of get_token_with_retries. *)
BoundedRetries ==
    /\ call.n_create <= call.max_retries
    /\ Len(call.slept) <= call.n_create
    /\ \A i \in 1..Len(call.slept) :
          /\ call.slept[i] <= 16
          /\ call.slept[i] = IF Pow2(i - 1) < 16 THEN Pow2(i - 1) ELSE 16
    /\ call.pc = "sleep" => (call.last_exc = 1 \/ retryable(call.last_exc))
    /\ call.pc = "returned"
       => (call.result = <<200>> /\ Len(call.slept) = call.n_create - 1)
    /\ call.pc = "raised"
       => /\ call.result = <<call.last_exc>>
          /\ \/ call.n_create = call.max_retries /\ Len(call.slept) = call.n_create
             \/ /\ call.last_exc \notin {0, 1} /\ ~retryable(call.last_exc)
                /\ Len(call.slept) = call.n_create - 1

(* C19. Bounded credential retries: get_token_with_retries always ends,
   by returning or raising; it calls create_token at most max_retries
   times; it sleeps and tries again only after a 429, 500, 502, 503 or 504
   or an error that is not an HTTP error, and raises at once on any other
   HTTP status; its waits are 1, 2, 4, 8 and then 16 seconds; it returns
   the first token obtained or raises the last error. *)
C19_BoundedRetries ==
    /\ []BoundedRetries
    /\ <>(call.pc \in {"returned", "raised"})

(* C19 witness: with max_retries 6 every attempt met a transient error and
   the function has raised the last one after waits of 1, 2, 4, 8, 16 and
   16 seconds. *)
C19_Witness ==
    /\ call.pc = "raised"
    /\ call.max_retries = 6
    /\ call.n_create = 6
    /\ call.slept = <<1, 2, 4, 8, 16, 16>>
    /\ call.result = <<503>>

----------------------------------------------------------------------------
(* The progress fallback, read from the raw payloads of a scope's fetch. *)

PrimaryOf(k) == hist.outcome[k].fetch.res.mesasTotalizadasPorcentaje

(* The primary value, 0 when absent or not a number. *)
PrimaryValue(k) == IF PrimaryOf(k).k = "num" THEN PrimaryOf(k).v ELSE 0

(* get_estado_recuento raised, or returned no numeric progress. *)
LookupFailed(k) ==
    \/ hist.outcome[k].fetch.est.raised
    \/ hist.outcome[k].fetch.est.mesasTotalizadasPorcentaje.k # "num"

(* The progress the scope had before this cycle's fetch, if any. *)
HadProgressAbove(k, val) ==
    cycle = 2 /\ k = NacionalKey /\ val < 10005

(* C20. Progress fallback lookup: get_estado_recuento is called for a
   fetched scope exactly when the primary payload carries no numeric
   progress or one that is not positive; when the lookup raises or returns
   no number, the progress used is the primary value, 0 when absent; and
   the scope then ends as its items alone decide: it fails only on an item
   whose percentage cannot be read, is empty only without items, and
   otherwise succeeds. *)
C20_ProgressFallback ==
    \A k \in DOMAIN hist.outcome :
       LET o == hist.outcome[k]
           items == o.fetch.res.valoresTotalizadosPositivos
       IN /\ o.est_called
             <=> (o.fetched /\ (PrimaryOf(k).k # "num" \/ PrimaryOf(k).v <= 0))
          /\ (o.est_called /\ LookupFailed(k))
             => /\ o.res = IF \E i \in 1..Len(items) : PctRaises(items[i]) THEN "fail"
                           ELSE IF items = <<>> THEN "empty" ELSE "ok"
                /\ o.res = "ok"
                   => /\ k \in DOMAIN prev_mesas_pct_by_key
                      /\ prev_mesas_pct_by_key[k] =
                            IF HadProgressAbove(k, PrimaryValue(k)) THEN 10005
                            ELSE PrimaryValue(k)
                      /\ \A i \in 1..Len(RowsOf(rows, k)) :
                            RowsOf(rows, k)[i].mesas_pct =
                               IF HadProgressAbove(k, PrimaryValue(k))
                               THEN truncate_2(10005)
                               ELSE truncate_2(PrimaryValue(k))

(* C20 witness: in a first cycle the national scope was fetched with a
   primary progress of -5.0, the lookup returned a text, and the scope
   succeeded with rows at progress -5.00. *)
C20_Witness ==
    /\ cycle = 1
    /\ NacionalKey \in DOMAIN hist.outcome
    /\ hist.outcome[NacionalKey].est_called
    /\ PrimaryOf(NacionalKey) = Num(-5000)
    /\ hist.outcome[NacionalKey].fetch.est = EstOf(Txt)
    /\ hist.outcome[NacionalKey].res = "ok"
    /\ RowsOf(rows, NacionalKey) # <<>>
    /\ RowsOf(rows, NacionalKey)[1].mesas_pct = [neg |-> TRUE, cents |-> 500]

(* C20, second witness: the primary payload carried progress 0 and the
   lookup supplied 12.0, which the scope's rows carry. *)
C20_LookupUsed ==
    /\ cycle = 1
    /\ NacionalKey \in DOMAIN hist.outcome
    /\ hist.outcome[NacionalKey].est_called
    /\ PrimaryOf(NacionalKey) = Num(0)
    /\ hist.outcome[NacionalKey].res = "ok"
    /\ RowsOf(rows, NacionalKey)[1].mesas_pct = [neg |-> FALSE, cents |-> 1200]

----------------------------------------------------------------------------
(* C21. The identities published for a scope never shrink: for every scope
   key that had rows in the final output of the previous cycle and has
   rows in this cycle, every identity of its previous rows is an identity
   of its rows of this cycle, in the rows accumulated and, once the cycle
   is over, in the rows handed to the final write. *)
C21_IdentitiesNeverShrink ==
    \A k \in KeysIn(hist.last_rows) \cap KeysIn(rows) :
       /\ Identities(RowsOf(hist.last_rows, k)) \subseteq Identities(RowsOf(rows, k))
       /\ CycleDone
          => Identities(RowsOf(hist.last_rows, k)) \subseteq Identities(RowsOf(hist.handed, k))

(* C21 witness: a cycle is over in which one scope succeeded with a fetch
   lacking two of its previous identities and another scope, whose fetch
   failed, kept its previous rows; both had rows in the previous cycle. *)
C21_Witness ==
    /\ CycleDone
    /\ hist.handed = rows
    /\ \E k1, k2 \in KeysIn(hist.last_rows) \cap KeysIn(rows) :
          /\ hist.outcome[k1].res = "ok"
          /\ Cardinality(Identities(RowsOf(hist.last_rows, k1)) \ hist.outcome[k1].ids) = 2
          /\ hist.outcome[k2].res = "fail"
          /\ RowsOf(rows, k2) = RowsOf(hist.last_rows, k2)

----------------------------------------------------------------------------
(* C22. The previous-state table is left untouched by the reconciliation
   of a scope: no step of a cycle before its end adds, removes or changes
   a row of prev_rows_by_key, so that throughout a cycle that follows a
   cycle with rows the table holds, key by key, the rows that cycle ended
   with, and these are the rows a fallback appends. *)
C22_PrevTableUntouched ==
    /\ [][(pc \in {"for", "nacional", "pba", "provincias"} /\ pc' # "while")
           => prev_rows_by_key' = prev_rows_by_key]_vars
    /\ [](pc # "while" /\ hist.last_rows # <<>>
          => /\ prev_rows_by_key = index_rows_by_key(hist.last_rows)
             /\ \A k \in KeysIn(hist.last_rows) :
                   fallback_rows(k) = RowsOf(hist.last_rows, k))

(* C22 witness: in a second cycle a scope has been stabilized with two
   stubs and its progress overridden by the guard, and the table still
   holds for it the three rows of the first cycle. *)
C22_Witness ==
    /\ cycle = 2
    /\ pc # "while"
    /\ \E k \in DOMAIN hist.outcome :
          /\ hist.outcome[k].res = "ok"
          /\ hist.outcome[k].fetch = FetchSecond
          /\ Len(RowsOf(rows, k)) = 3
          /\ \A i \in 1..3 : /\ RowsOf(rows, k)[i].ts_iso = 2
                             /\ RowsOf(rows, k)[i].mesas_pct = [neg |-> FALSE, cents |-> 1000]
          /\ Cardinality({i \in 1..3 : RowsOf(rows, k)[i].votos_pct = ZeroPct}) = 2
          /\ Len(DictGet(prev_rows_by_key, k)) = 3
          /\ \A i \in 1..3 : DictGet(prev_rows_by_key, k)[i].ts_iso = 1
          /\ DictGet(prev_rows_by_key, k) = RowsOf(hist.last_rows, k)

----------------------------------------------------------------------------
(* C23. Incremental snapshots are complete over the previous state: the
   rows handed to every incremental write hold, for every scope key of
   prev_rows_by_key, the rows accumulated for the key in this cycle or,
   when there are none yet, its previous rows unchanged, and hold no other
   key than those and the keys of this cycle's rows; and a scope key is in
   the rows handed to the final write only if the scope was reconciled in
   this cycle and has rows among the rows accumulated. *)
C23_IncrementalComplete ==
    /\ [][hist'.n_incr = hist.n_incr + 1
          => /\ \A k \in DictKeys(prev_rows_by_key) :
                   /\ RowsOf(hist'.handed, k) # <<>>
                   /\ RowsOf(hist'.handed, k) =
                         IF RowsOf(rows', k) # <<>> THEN RowsOf(rows', k)
                         ELSE DictGet(prev_rows_by_key, k)
             /\ KeysIn(hist'.handed) = DictKeys(prev_rows_by_key) \cup KeysIn(rows')
             /\ \A k \in KeysIn(rows') : RowsOf(hist'.handed, k) = RowsOf(rows', k)]_vars
    /\ []((CycleDone /\ hist.n_final = 1)
          => \A k \in KeysIn(hist.handed) :
                k \in DOMAIN hist.outcome /\ RowsOf(rows, k) # <<>>)

(* C23 witness: in a second cycle the last incremental write was handed
   the rows of this cycle of one scope together with the previous rows of
   a scope not reconciled so far. *)
C23_Witness ==
    /\ cycle = 2
    /\ pc \notin {"while", "crashed"}
    /\ hist.n_incr = 1
    /\ \E k1 \in DOMAIN hist.outcome, k2 \in DictKeys(prev_rows_by_key) \ DOMAIN hist.outcome :
          /\ hist.outcome[k1].res = "ok"
          /\ RowsOf(hist.handed, k1) = RowsOf(rows, k1)
          /\ RowsOf(hist.handed, k1)[1].ts_iso = 2
          /\ RowsOf(rows, k2) = <<>>
          /\ RowsOf(hist.handed, k2) = DictGet(prev_rows_by_key, k2)
          /\ RowsOf(hist.handed, k2)[1].ts_iso = 1

----------------------------------------------------------------------------
(* The diagnostics of a sequence that warn of a duplicate agrupacion_id. *)
DuplicateWarnings(errs) ==
    SelectSeq(errs, LAMBDA e : e.tag = "warn duplicado agrupacion_id")

(* C24. The duplicate warning of the validator is never emitted on the
   rows of a cycle: the rows accumulated for a scope key, stabilized or
   fallen back, never hold two rows with the same non-empty (stripped)
   agrupacion_id, and neither the diagnostics of the cycle nor the cycle
   log carry a "duplicado agrupacion_id" warning. *)
C24_NoDuplicateWarning ==
    /\ \A k \in KeysIn(rows) :
          LET rs == RowsOf(rows, k)
          IN \A i, j \in 1..Len(rs) :
                (i < j /\ Strip(rs[i].agrupacion_id) # "")
                => Strip(rs[i].agrupacion_id) # Strip(rs[j].agrupacion_id)
    /\ validation_warnings(rows) = SelectSeq(validation_warnings(rows),
                                             LAMBDA e : e.tag = "warn suma_pct")
    /\ DuplicateWarnings(errors) = <<>>
    /\ CycleDone => DuplicateWarnings(run_log.errors) = <<>>

(* C24 witness: a cycle is over, validated and logged, in which the fetch
   of the national scope brought two items with the same agrupacion_id
   "1"; the scope succeeded and holds a single row with that id. *)
C24_Witness ==
    /\ CycleDone
    /\ run_log.ts = cycle
    /\ NacionalKey \in DOMAIN hist.outcome
    /\ hist.outcome[NacionalKey].res = "ok"
    /\ Cardinality({i \in 1..Len(ItemsOf(NacionalKey)) :
                      ItemsOf(NacionalKey)[i].idAgrupacion = "1"}) >= 2
    /\ Cardinality({i \in 1..Len(rows) : rows[i].agrupacion_id = "1"}) = 1

====
